---- MODULE Spec2Model ----
(***************************************************************************)
(* A model of Antigravity Sync (src/sync_app.py): the archive sync engine  *)
(* (SyncLogic.run_backup, run_restore, cleanup_old_backups,                *)
(* should_ignore), the reporting queue and the minute scheduler            *)
(* (SyncApp.scheduler_loop).                                               *)
(*                                                                         *)
(* Strings are sequences of one-character strings, so that startswith,     *)
(* fnmatch, strftime padding and the lexicographic sort of file names are  *)
(* computed character by character, as the code computes them.  A path is  *)
(* the sequence of its segments, i.e. the result of raw.split("/"): an     *)
(* absolute path starts with the empty segment.                            *)
(***************************************************************************)
EXTENDS Integers, Sequences, FiniteSets, TLC

\* ------------------------------------------------------------------ bounds

\* Polls of the clock per clock minute (the clock is read at this resolution;
\* one tick stands for one second of the %S field).
TicksPerMinute == 2

\* Minutes in a (scaled-down) day: the %H:%M value wraps after this many.
MinutesPerDay == 2

\* Last clock value of the scheduler specification (more than two days).
MaxNow == 7

\* Last clock value of the engine specification.
MaxRunClock == 1

\* Capacity given to the (unbounded) reporting queue.
MaxQueue == 6

\* Runs the user starts in one behaviour.
MaxRuns == 2

\* I/O operations that fail in one behaviour (a failing makedirs, open,
\* write, close, remove or extract).
MaxFaults == 1

\* ----------------------------------------------------------------- strings

\* The characters used, in ASCII order (".", digits, capitals, "_", small).
CharOrder ==
  <<" ", "*", ".", "0", "1", "2", "3", "4", "5", "6", "7", "8", "9", ":",
    "?", "A", "B", "F", "_", "a", "d", "f", "g", "m", "t", "z">>

Ord(c) == CHOOSE i \in 1..Len(CharOrder) : CharOrder[i] = c

Digit(n) == CharOrder[4 + n]

\* "%02d"
Pad2(n) == <<Digit((n \div 10) % 10), Digit(n % 10)>>

\* Python's str < str: the first differing character decides, a proper
\* prefix is smaller.
RECURSIVE StrLess(_, _)
StrLess(s, t) ==
  IF t = <<>> THEN FALSE
  ELSE IF s = <<>> THEN TRUE
  ELSE IF Head(s) = Head(t) THEN StrLess(Tail(s), Tail(t))
  ELSE Ord(Head(s)) < Ord(Head(t))

StartsWith(s, pre) ==
  /\ Len(s) >= Len(pre)
  /\ SubSeq(s, 1, Len(pre)) = pre

\* str.strip() for the blank character.
RECURSIVE LStrip(_)
LStrip(s) == IF s # <<>> /\ Head(s) = " " THEN LStrip(Tail(s)) ELSE s

RECURSIVE RStrip(_)
RStrip(s) ==
  IF s # <<>> /\ s[Len(s)] = " " THEN RStrip(SubSeq(s, 1, Len(s) - 1)) ELSE s

Strip(s) == RStrip(LStrip(s))

\* os.path.normcase as fnmatch applies it on Windows (the program's
\* platform, base_user_path is C:\Users\...): capitals are lowered.
NormChar(c) == CASE c = "A" -> "a" [] c = "F" -> "f" [] OTHER -> c

NormCase(s) == [i \in 1..Len(s) |-> NormChar(s[i])]

\* fnmatch.fnmatchcase for the wildcards * and ?.
RECURSIVE GlobMatch(_, _)
GlobMatch(name, pat) ==
  IF pat = <<>> THEN name = <<>>
  ELSE IF Head(pat) = "*"
    THEN \/ GlobMatch(name, Tail(pat))
         \/ (name # <<>> /\ GlobMatch(Tail(name), pat))
  ELSE /\ name # <<>>
       /\ (Head(pat) = "?" \/ Head(pat) = Head(name))
       /\ GlobMatch(Tail(name), Tail(pat))

\* glob.fnmatch.fnmatch(part, p)
fnmatch(part, p) == GlobMatch(NormCase(part), NormCase(p))

\* A filter that ignores nothing.  (C5 is checked against it.)
IgnoreNothing(path, patterns) == FALSE

\* SyncLogic.should_ignore: any segment of the path matches any pattern.
should_ignore(path, patterns) ==
  \E i \in 1..Len(path) : \E p \in patterns : fnmatch(path[i], p)

\* path.replace('\\', '/')
ReplaceBackslash(raw) ==
  [i \in 1..Len(raw) |-> IF raw[i] = "\\" THEN "/" ELSE raw[i]]

\* str.split(sep): the pieces between the separators, empty ones kept.
RECURSIVE SplitOn(_, _)
SplitOn(s, sep) ==
  IF \A i \in 1..Len(s) : s[i] # sep THEN <<s>>
  ELSE LET first == CHOOSE i \in 1..Len(s) :
                      /\ s[i] = sep
                      /\ \A j \in 1..(i - 1) : s[j] # sep
       IN  <<SubSeq(s, 1, first - 1)>>
             \o SplitOn(SubSeq(s, first + 1, Len(s)), sep)

\* A split on "/" alone.  (C15 is checked against it.)
SplitSlash(raw) == SplitOn(raw, "/")

\* parts = path.replace('\\', '/').split('/')
Parts(raw) == SplitOn(ReplaceBackslash(raw), "/")

\* SyncLogic.should_ignore on the path as the caller passes it, a string.
ShouldIgnorePath(raw, patterns) == should_ignore(Parts(raw), patterns)

\* No call of should_ignore; a call that is to be made; the call once
\* it has returned.
NoCall == [path |-> <<>>, patterns |-> {}, ret |-> "none"]

Calling(raw, patterns) ==
  [path |-> raw, patterns |-> patterns, ret |-> "pending"]

Returned(raw, patterns) ==
  [path |-> raw, patterns |-> patterns,
   ret |-> IF ShouldIgnorePath(raw, patterns) THEN "True" ELSE "False"]

\* -------------------------------------------------------------- file names

\* socket.gethostname() of this machine, and of another machine that
\* writes to the same storage root.
Hostname == <<"A">>

OtherHost == <<"B">>

\* SyncConfig.file_prefix ("Antigravity_Backup", abbreviated).
file_prefix == <<"A", "B">>

\* The clock is a count of ticks; its strftime fields.
DayOf(t) == t \div (MinutesPerDay * TicksPerMinute)

MinuteOf(t) == (t \div TicksPerMinute) % MinutesPerDay

SecondOf(t) == t % TicksPerMinute

\* now.strftime("%Y%m%d_%H%M%S"): fixed-width, zero-padded fields.
Timestamp(t) ==
  Pad2(DayOf(t)) \o <<"_">> \o Pad2(MinuteOf(t)) \o Pad2(SecondOf(t))

\* now.strftime("%H:%M") (the hour field of the scaled-down day is 00).
FormatHM(t) == <<"0", "0", ":">> \o Pad2(MinuteOf(t))

\* f"{file_prefix}_{hostname}_{timestamp}.zip"
ZipName(host, t) ==
  file_prefix \o <<"_">> \o host \o <<"_">> \o Timestamp(t)
    \o <<".", "z">>

\* An archive at the storage root is identified by the host and the clock
\* value its name was made from.
KeyOf(a) == [host |-> a.host, t |-> a.t]

NameOf(a) == ZipName(a.host, a.t)

\* files.sort(reverse=True) on a set of archives: greatest file name first.
RECURSIVE SortReverse(_)
SortReverse(S) ==
  IF S = {} THEN <<>>
  ELSE LET top == CHOOSE a \in S :
                    \A b \in S \ {a} : StrLess(NameOf(b), NameOf(a))
       IN  <<top>> \o SortReverse(S \ {top})

\* Python's seq[count:] for any integer count.
SliceFrom(seq, count) ==
  LET n     == Len(seq)
      start == IF count >= 0 THEN (IF count > n THEN n ELSE count)
               ELSE (IF n + count < 0 THEN 0 ELSE n + count)
  IN  SubSeq(seq, start + 1, n)

Range(seq) == {seq[i] : i \in 1..Len(seq)}

\* ------------------------------------------------------------- local tree

\* Names used below the user's home directory (base_user_path).
SegA == <<"a">>

SegGit == <<".", "g">>

SegF == <<"f">>

SegTmp == <<"f", ".", "t">>

SegD == <<"d">>

SegM == <<"m">>

SegUp == <<".", ".">>

\* An entry of a tree: its path below base_user_path and its content; the
\* content 0 marks a directory.
Entry(path, data) == [path |-> path, data |-> data]

IsUnder(dir, path) ==
  /\ Len(path) > Len(dir)
  /\ SubSeq(path, 1, Len(dir)) = dir

\* os.path.exists(path)
PathExists(path, tree) ==
  \E e \in tree : e.path = path \/ IsUnder(path, e.path)

\* Names in ascending order (os.walk yields the names in the order
\* of the directory listing; the sorted order stands for it).
RECURSIVE SortNames(_)
SortNames(S) ==
  IF S = {} THEN <<>>
  ELSE LET low == CHOOSE x \in S : \A y \in S \ {x} : StrLess(x, y)
       IN  <<low>> \o SortNames(S \ {low})

FileNamesIn(dir, tree) ==
  {e.path[Len(dir) + 1] :
     e \in {x \in tree : /\ IsUnder(dir, x.path)
                         /\ Len(x.path) = Len(dir) + 1
                         /\ x.data # 0}}

DirNamesIn(dir, tree) ==
  {e.path[Len(dir) + 1] :
     e \in {x \in tree : /\ IsUnder(dir, x.path)
                         /\ (Len(x.path) > Len(dir) + 1 \/ x.data = 0)}}

\* The (root, dirs, files) loop of run_backup over os.walk(source_path):
\* ignored directories are pruned, ignored files are skipped; the result
\* is the paths of the files collected, the files of a directory before
\* those of its subdirectories.
RECURSIVE WalkDir(_, _, _)
RECURSIVE WalkDirs(_, _, _, _)
WalkDir(dir, tree, patterns) ==
  LET files == SelectSeq(SortNames(FileNamesIn(dir, tree)),
                         LAMBDA f : ~should_ignore(<<f>>, patterns))
      dirs  == SelectSeq(SortNames(DirNamesIn(dir, tree)),
                         LAMBDA d : ~should_ignore(<<d>>, patterns))
  IN  [i \in 1..Len(files) |-> dir \o <<files[i]>>]
        \o WalkDirs(dir, dirs, tree, patterns)

WalkDirs(dir, dirs, tree, patterns) ==
  IF dirs = <<>> THEN <<>>
  ELSE WalkDir(dir \o <<Head(dirs)>>, tree, patterns)
         \o WalkDirs(dir, Tail(dirs), tree, patterns)

\* The loop over cfg.get("target_folders") of run_backup: the arcnames
\* (folder joined with the path relative to the folder) of files_to_zip.
RECURSIVE CollectFiles(_, _, _)
CollectFiles(folders, tree, patterns) ==
  IF folders = <<>> THEN <<>>
  ELSE LET folder == Strip(Head(folders))
           rest   == CollectFiles(Tail(folders), tree, patterns)
       IN  IF folder = <<>> THEN rest
           ELSE IF PathExists(<<folder>>, tree)
             THEN WalkDir(<<folder>>, tree, patterns) \o rest
           ELSE rest

\* ------------------------------------------------------------------ state

VARIABLES
  now,              \* the wall clock (datetime.now()), in ticks
  cfg,              \* SyncConfig.config
  config_file,      \* the file CONFIG_FILE
  app,              \* the process: "off", "up", or "failed" at startup
  call,             \* the last call of should_ignore and what it returned
  drive_exists,     \* os.path.exists(drive_path)
  archives,         \* the archives at the storage root
  local,            \* the tree below base_user_path
  pc,               \* where each worker thread is
  run,              \* each worker's SyncLogic object and run_* locals
  queue,            \* SyncApp.queue
  ui_locked,        \* lock_ui: the BACKUP and RESTORE buttons are disabled
  cancel_enabled,   \* the CANCEL button is enabled
  last_run_minute,  \* local of scheduler_loop
  sched,            \* what the scheduler has done (history)
  hist              \* runs started, I/O failures, the last backup made

\* The configuration in memory and on disk, the process, and the last
\* call of the filter.
conf == <<cfg, config_file, app, call>>

vars ==
  <<now, conf, drive_exists, archives, local, pc, run, queue, ui_locked,
    cancel_enabled, last_run_minute, sched, hist>>

\* The thread started by start_backup / confirm_restore, and the thread
\* the scheduler starts.
User == "user"

Auto == "auto"

Workers == {User, Auto}

\* First clock value: archives found at start carry earlier stamps.
FirstNow == 2

\* threading.active_count() < 5
ThreadLimit == 5

\* Live threads that are neither the main thread, the scheduler nor a
\* worker: the tray icon's (minimize_to_tray) and the startup scan's.
MaxOtherThreads == 2

NoKey == [host |-> <<>>, t |-> 0]

\* The last backup that succeeded: its archive, the tree it scanned and
\* the entries it could not write.
NoBackup == [key |-> NoKey, snapshot |-> {}, errors |-> {}]

\* scan_for_backups has not run: what ensure_drive came to in it and the
\* files it listed.
NoScan == [drive |-> "none", listed |-> {}]

\* An archive file at the storage root.  state: "open" while the ZipFile
\* of a backup writes it, "complete" once closed after the last entry,
\* "partial" closed by a cancel before the last entry, "broken" left
\* behind by a failed close.
Archive(host, t, state, members) ==
  [host |-> host, t |-> t, state |-> state, members |-> members]

\* The events put on the queue.
LogEv(text) ==
  [type |-> "log", flag |-> TRUE, text |-> text, num |-> 0, den |-> 1]

ProgressEv(num, den, label) ==
  [type |-> "progress", flag |-> TRUE, text |-> label, num |-> num,
   den |-> den]

FinishEv(success, msg) ==
  [type |-> "finish", flag |-> success, text |-> msg, num |-> 0, den |-> 1]

\* A SyncLogic object before its run (SyncLogic.__init__), with the
\* locals of run_backup / run_restore and what the run did.
NewRun(kind, silent) ==
  [kind      |-> kind,      \* "none", "backup", "restore"
   silent    |-> silent,    \* the silent argument of run_backup
   stop      |-> FALSE,     \* self.stop_requested
   stamp     |-> 0,         \* the clock value of timestamp
   files     |-> <<>>,      \* files_to_zip / file_list
   idx       |-> 0,         \* entries of the loop already handled
   latest    |-> NoKey,     \* latest_backup
   fin       |-> <<>>,      \* finish events this run has put
   ret       |-> "running", \* the return value
   errors    |-> {},        \* entries skipped after an exception
   guarded   |-> {},        \* members skipped by the path guard
   written   |-> {},        \* entries extracted, where they landed
   drive     |-> "none",    \* ensure_drive: "unset", "failed", "ready"
   scanned   |-> FALSE,     \* run_backup has scanned the folders
   snapshot  |-> {},        \* the tree when the run started
   opened    |-> FALSE,     \* the destination file was opened
   cancel_at |-> -1,        \* entries handled when cancel was pressed
   cancel_pc |-> "none",    \* where the worker was then
   listed    |-> {},        \* cleanup_old_backups: the files it found
   deleted   |-> {},        \*   those it removed
   kept_err  |-> {},        \* files os.remove failed to remove
   emitted   |-> <<>>,      \* the events this run has put on the queue
   applied   |-> <<>>]      \* those of them check_queue has applied

\* The comparison of a silent with an interactive backup: the storage
\* root both start from (root, exists), and once the silent one is over
\* (done) its SyncLogic and the storage root it left (after, made).
NoTwin ==
  [root |-> {}, exists |-> FALSE, done |-> FALSE,
   run |-> NewRun("none", FALSE), after |-> {}, made |-> FALSE]

\* Every SyncLogic is given the queue of the window.  (C20 is checked
\* against it.)
HasQueueAll(w) == TRUE

\* self.queue of a worker's SyncLogic: the scheduler passes None.
HasQueue(w) == w = User

\* A queue that hands out the newest events first.  (C12 is checked
\* against it.)
PutFront(w, evs) == IF HasQueue(w) THEN evs \o queue ELSE queue

\* SyncLogic.log / progress / finish: put if there is a queue
\* (log prints otherwise).
Put(w, evs) == IF HasQueue(w) THEN queue \o evs ELSE queue

\* The events a worker's SyncLogic has put, with evs put after them.
Emit(w, evs) == IF HasQueue(w) THEN run[w].emitted \o evs ELSE run[w].emitted

Unless(silent, evs) == IF silent THEN <<>> ELSE evs

Live(w) == pc[w] # "idle"

\* threading.active_count(): main thread, scheduler, workers, others.
ActiveCount(others) == 2 + others + Cardinality({w \in Workers : Live(w)})

DestKey(w) == [host |-> Hostname, t |-> run[w].stamp]

ArchiveAt(key) == {a \in archives : KeyOf(a) = key}

\* ------------------------------------------------------------- run_backup

\* The "Scanning: ..." and "Warning: Folder ... not found." lines.
RECURSIVE ScanLog(_, _)
ScanLog(folders, tree) ==
  IF folders = <<>> THEN <<>>
  ELSE LET folder == Strip(Head(folders))
           rest   == ScanLog(Tail(folders), tree)
       IN  IF folder = <<>> THEN rest
           ELSE IF PathExists(<<folder>>, tree)
             THEN <<LogEv("Scanning")>> \o rest
           ELSE <<LogEv("Warning: Folder not found")>> \o rest

\* A worker's thread returns.
Return(w, value, evs) ==
  /\ Len(Put(w, evs)) <= MaxQueue
  /\ queue' = Put(w, evs)
  /\ pc' = [pc EXCEPT ![w] = "idle"]

Finishes(evs) == SelectSeq(evs, LAMBDA e : e.type = "finish")

\* An I/O operation of the step fails (failed) or not: failures are
\* counted, and come to an end.
Fault(failed) ==
  /\ failed => hist.faults < MaxFaults
  /\ hist' = [hist EXCEPT !.faults = IF failed THEN @ + 1 ELSE @]

\* SyncLogic.ensure_drive: what it can come to.  "made": os.makedirs
\* created the directory; "failed": it raised.
DriveOutcomes ==
  IF cfg.drive_path = <<>> THEN {"unset"}
  ELSE IF drive_exists THEN {"ok"}
  ELSE {"made", "failed"}

\* An ensure_drive that lets every caller go on.  (C16 is checked
\* against it.)
DriveAlways(outcome) == TRUE

DriveReady(outcome) == outcome \in {"ok", "made"}

DriveResult(outcome) ==
  IF outcome \in {"ok", "made"} THEN "ready" ELSE outcome

DriveLog(outcome) ==
  IF outcome = "unset" THEN <<LogEv("ERROR: Drive path is not configured.")>>
  ELSE IF outcome = "failed" THEN <<LogEv("Could not create directory")>>
  ELSE <<>>

\* run_backup up to "Creating archive": ensure_drive, the timestamp and
\* the scan of the target folders.
BackupScan(w) ==
  /\ pc[w] = "b_start"
  /\ \E drive \in DriveOutcomes :
       LET silent  == run[w].silent
           hello   == Unless(silent, <<LogEv("Starting BACKUP")>>)
           nodrive == Unless(silent,
                        <<FinishEv(FALSE, "Drive not available")>>)
           found   == CollectFiles(cfg.target_folders, local,
                                   cfg.ignore_patterns)
           scans   == Unless(silent, ScanLog(cfg.target_folders, local))
           nofile  == Unless(silent,
                        <<LogEv("No files found to back up."),
                          FinishEv(FALSE, "No files found")>>)
           create  == Unless(silent, <<LogEv("Creating archive")>>)
       IN  /\ Fault(drive = "failed")
           /\ drive_exists' = (drive_exists \/ drive = "made")
           /\ IF ~DriveReady(drive)
                THEN /\ Return(w, "None", hello \o DriveLog(drive) \o nodrive)
                     /\ run' = [run EXCEPT ![w].emitted =
                              Emit(w, hello \o DriveLog(drive) \o nodrive),
                                           ![w].drive = DriveResult(drive),
                                           ![w].snapshot = local,
                                           ![w].ret = "None",
                                           ![w].fin = Finishes(nodrive)]
              ELSE IF found = <<>>
                THEN /\ Return(w, "None", hello \o scans \o nofile)
                     /\ run' = [run EXCEPT ![w].emitted =
                                             Emit(w, hello \o scans \o nofile),
                                           ![w].drive = DriveResult(drive),
                                           ![w].stamp = now,
                                           ![w].scanned = TRUE,
                                           ![w].snapshot = local,
                                           ![w].ret = "None",
                                           ![w].fin = Finishes(nofile)]
              ELSE /\ Len(Put(w, hello \o scans \o create)) <= MaxQueue
                   /\ queue' = Put(w, hello \o scans \o create)
                   /\ pc' = [pc EXCEPT ![w] = "b_open"]
                   /\ run' = [run EXCEPT ![w].emitted =
                                           Emit(w, hello \o scans \o create),
                                         ![w].drive = DriveResult(drive),
                                         ![w].stamp = now,
                                         ![w].scanned = TRUE,
                                         ![w].snapshot = local,
                                         ![w].files = found]
  /\ UNCHANGED <<now, conf, archives, local, ui_locked, cancel_enabled,
                 last_run_minute, sched>>

\* The outer try without its handler: the exception ends the worker and
\* nothing is reported.  (C11 is checked against it.)
BackupEscape(w) ==
  /\ Return(w, "False", <<>>)
  /\ run' = [run EXCEPT ![w].ret = "False", ![w].fin = <<>>]

\* The handler of run_backup's outer try: "[CRITICAL ERROR] ...",
\* finish(False, str(e)), return False.
BackupRaise(w) ==
  LET evs == Unless(run[w].silent,
                    <<LogEv("CRITICAL ERROR"), FinishEv(FALSE, "error")>>)
  IN  /\ Return(w, "False", evs)
      /\ run' = [run EXCEPT ![w].emitted = Emit(w, evs),
                            ![w].ret = "False", ![w].fin = Finishes(evs)]

\* zipfile.ZipFile(full_output_path, 'w', ...): creates or truncates the
\* file, or raises.
BackupOpen(w) ==
  /\ pc[w] = "b_open"
  /\ \E ok \in BOOLEAN :
       /\ Fault(~ok)
       /\ IF ok
            THEN /\ archives' = (archives \ ArchiveAt(DestKey(w)))
                      \cup {Archive(Hostname, run[w].stamp, "open", <<>>)}
                 /\ pc' = [pc EXCEPT ![w] = "b_check"]
                 /\ run' = [run EXCEPT ![w].opened = TRUE]
                 /\ UNCHANGED queue
            ELSE /\ BackupRaise(w)
                 /\ UNCHANGED archives
  /\ UNCHANGED <<now, conf, drive_exists, local, ui_locked, cancel_enabled,
                 last_run_minute, sched>>

\* The archive at the worker's destination with its state or members
\* changed.
SetState(w, state) ==
  {IF KeyOf(a) = DestKey(w) THEN [a EXCEPT !.state = state] ELSE a :
     a \in archives}

AddMember(w, member) ==
  {IF KeyOf(a) = DestKey(w)
     THEN [a EXCEPT !.members = Append(a.members, member)] ELSE a :
     a \in archives}

\* The cancel path with its os.remove taken out: the archive closed so
\* far stays.  (C2 is checked against it.)
CloseAndKeep(w, removed) == SetState(w, "partial")

\* zip_file.close(), then os.remove(full_output_path) in its try: the
\* file is gone, or stays as the archive closed so far.
CloseAndRemove(w, removed) ==
  IF removed THEN archives \ ArchiveAt(DestKey(w))
  ELSE SetState(w, "partial")

\* The checkpoint at the top of the loop body: if self.stop_requested,
\* close the archive, try to remove it, finish(False, "Cancelled").
BackupCheck(w) ==
  /\ pc[w] = "b_check"
  /\ IF run[w].stop
       THEN LET evs == Unless(run[w].silent,
                         <<LogEv("Backup Cancelled."),
                           FinishEv(FALSE, "Cancelled")>>)
            IN  /\ \E removed \in BOOLEAN :
                     /\ Fault(~removed)
                     /\ archives' = CloseAndRemove(w, removed)
                     /\ run' = [run EXCEPT
                          ![w].emitted = Emit(w, evs),
                          ![w].ret = "None",
                          ![w].fin = Finishes(evs),
                          ![w].kept_err = IF removed THEN {}
                                          ELSE {DestKey(w)}]
                /\ Return(w, "None", evs)
       ELSE /\ pc' = [pc EXCEPT ![w] = "b_write"]
            /\ UNCHANGED <<archives, run, queue, hist>>
  /\ UNCHANGED <<now, conf, drive_exists, local, ui_locked, cancel_enabled,
                 last_run_minute, sched>>

\* zip_file.write(src_file, zip_path) in its try, then the progress event.
BackupWrite(w) ==
  /\ pc[w] = "b_write"
  /\ LET silent == run[w].silent
         total  == Len(run[w].files)
         name   == run[w].files[run[w].idx + 1]
         source == {e \in local : e.path = name /\ e.data # 0}
         prog   == Unless(silent,
                     <<ProgressEv(run[w].idx + 1, total, "")>>)
         err    == Unless(silent, <<LogEv("Error skipping file")>>)
         next   == IF run[w].idx + 1 = total THEN "b_close" ELSE "b_check"
     IN  \E ok \in BOOLEAN :
           /\ ok => source # {}
           /\ Fault(~ok /\ source # {})
           /\ IF ok
                THEN /\ archives' =
                          AddMember(w, Entry(name,
                                             (CHOOSE e \in source : TRUE).data))
                     /\ Len(Put(w, prog)) <= MaxQueue
                     /\ queue' = Put(w, prog)
                     /\ run' = [run EXCEPT ![w].emitted = Emit(w, prog),
                                           ![w].idx = @ + 1]
                ELSE /\ UNCHANGED archives
                     /\ Len(Put(w, err \o prog)) <= MaxQueue
                     /\ queue' = Put(w, err \o prog)
                     /\ run' = [run EXCEPT ![w].emitted = Emit(w, err \o prog),
                                           ![w].idx = @ + 1,
                                           ![w].errors = @ \cup {name}]
           /\ pc' = [pc EXCEPT ![w] = next]
  /\ UNCHANGED <<now, conf, drive_exists, local, ui_locked, cancel_enabled,
                 last_run_minute, sched>>

\* A close whose failure is not raised: the run goes on to the retention
\* step with the archive as the failed close left it.  (C22 is checked
\* against it.)
CloseAndGoOn(w) ==
  /\ pc[w] = "b_close"
  /\ \E ok \in BOOLEAN :
       /\ Fault(~ok)
       /\ archives' = SetState(w, IF ok THEN "complete" ELSE "broken")
       /\ Len(Put(w, Unless(run[w].silent, <<LogEv("[SUCCESS]")>>)))
            <= MaxQueue
       /\ queue' = Put(w, Unless(run[w].silent, <<LogEv("[SUCCESS]")>>))
       /\ pc' = [pc EXCEPT ![w] = "b_prune"]
       /\ run' = [run EXCEPT ![w].emitted =
            Emit(w, Unless(run[w].silent, <<LogEv("[SUCCESS]")>>))]
  /\ UNCHANGED <<now, conf, drive_exists, local, ui_locked, cancel_enabled,
                 last_run_minute, sched>>

\* Leaving the with block closes the archive; a failing close raises into
\* the outer handler, which leaves the file where it is.
BackupClose(w) ==
  /\ pc[w] = "b_close"
  /\ \E ok \in BOOLEAN :
       /\ Fault(~ok)
       /\ IF ok
            THEN /\ archives' = SetState(w, "complete")
                 /\ Len(Put(w, Unless(run[w].silent, <<LogEv("[SUCCESS]")>>)))
                      <= MaxQueue
                 /\ queue' =
                      Put(w, Unless(run[w].silent, <<LogEv("[SUCCESS]")>>))
                 /\ pc' = [pc EXCEPT ![w] = "b_prune"]
                 /\ run' = [run EXCEPT ![w].emitted =
                      Emit(w, Unless(run[w].silent, <<LogEv("[SUCCESS]")>>))]
            ELSE /\ archives' = SetState(w, "broken")
                 /\ BackupRaise(w)
  /\ UNCHANGED <<now, conf, drive_exists, local, ui_locked, cancel_enabled,
                 last_run_minute, sched>>

\* ---------------------------------------------------- cleanup_old_backups

\* A file that os.remove cannot delete: another handle of the process has
\* it open (a ZipFile writing it, or a restore reading it).
InUse(a) ==
  \/ a.state = "open"
  \/ \E w \in Workers : /\ pc[w] \in {"r_check", "r_extract"}
                        /\ run[w].latest = KeyOf(a)

\* files = glob.glob(pattern); files.sort(reverse=True)
ListBackups == SortReverse(archives)

\* files_to_delete: files[count:] if len(files) > count
FilesToDelete(files, count) ==
  IF Len(files) > count THEN SliceFrom(files, count) ELSE <<>>

\* The end of run_backup: cleanup_old_backups (each removal deletes the
\* file or raises and is logged), finish(True, ...), return True.
BackupPrune(w) ==
  /\ pc[w] = "b_prune"
  /\ LET files  == ListBackups
         doomed == FilesToDelete(files, cfg.retention_count)
     IN  \E stuck \in SUBSET Range(doomed) :
           /\ \A a \in Range(doomed) : InUse(a) => a \in stuck
           /\ Cardinality({a \in stuck : ~InUse(a)}) <= MaxFaults - hist.faults
           /\ hist' = [hist EXCEPT
                 !.faults = @ + Cardinality({a \in stuck : ~InUse(a)}),
                 !.backup = [key      |-> DestKey(w),
                             snapshot |-> run[w].snapshot,
                             errors   |-> run[w].errors]]
           /\ LET evs == <<LogEv("Cleaning up logic")>>
                         \o [i \in 1..Len(doomed) |->
                               IF doomed[i] \in stuck
                                 THEN LogEv("Failed to delete")
                                 ELSE LogEv("Deleted old backup")]
                         \o Unless(run[w].silent,
                                   <<FinishEv(TRUE, "Backup Complete")>>)
              IN  /\ archives' = archives \ (Range(doomed) \ stuck)
                  /\ Return(w, "True", evs)
                  /\ run' = [run EXCEPT
                       ![w].emitted = Emit(w, evs),
                       ![w].ret = "True",
                       ![w].fin = Finishes(evs),
                       ![w].listed = {KeyOf(a) : a \in Range(files)},
                       ![w].deleted = {KeyOf(a) : a \in Range(doomed) \ stuck},
                       ![w].kept_err = {KeyOf(a) : a \in stuck}]
  /\ UNCHANGED <<now, conf, drive_exists, local, ui_locked, cancel_enabled,
                 last_run_minute, sched>>

\* ------------------------------------------------------------ run_restore

\* The guard with its startswith("..") test taken out.  (C4 is checked
\* against it.)
PathGuardAbsolute(name) == name[1] = <<>>

\* file.startswith("..") or os.path.isabs(file)
PathGuard(name) ==
  \/ StartsWith(name[1], <<".", ".">>)
  \/ name[1] = <<>>

\* Where ZipFile.extract(member, base_user_path) puts a member, below
\* base_user_path: the empty, "." and ".." components are dropped.
ExtractTarget(name) ==
  SelectSeq(name, LAMBDA seg : seg \notin {<<>>, <<".">>, <<".", ".">>})

\* A path that, joined to the target root as it stands, names a place
\* outside it.
RECURSIVE Climb(_, _)
Climb(path, depth) ==
  IF path = <<>> THEN FALSE
  ELSE IF Head(path) = SegUp
    THEN depth = 0 \/ Climb(Tail(path), depth - 1)
  ELSE Climb(Tail(path), depth + 1)

EscapesRoot(path) == path # <<>> /\ (path[1] = <<>> \/ Climb(path, 0))

\* The analysis pass: progress((i / total_files) * 0.1, "Analyzing...")
AnalysisPass(total) ==
  [k \in 1..total |-> ProgressEv(k - 1, 10 * total, "Analyzing...")]

\* run_restore up to latest_backup: ensure_drive, glob, sort, files[0].
RestoreSelect(w) ==
  /\ pc[w] = "r_start"
  /\ \E drive \in DriveOutcomes :
       LET hello   == <<LogEv("Starting RESTORE")>>
           nodrive == <<FinishEv(FALSE, "Drive not available")>>
           nofile  == <<LogEv("No backup files found in Drive."),
                        FinishEv(FALSE, "No backups found")>>
           found   == <<LogEv("Found latest backup")>>
           files   == ListBackups
       IN  /\ Fault(drive = "failed")
           /\ drive_exists' = (drive_exists \/ drive = "made")
           /\ IF ~DriveReady(drive)
                THEN /\ Return(w, "None", hello \o DriveLog(drive) \o nodrive)
                     /\ run' = [run EXCEPT ![w].emitted =
                              Emit(w, hello \o DriveLog(drive) \o nodrive),
                                           ![w].drive = DriveResult(drive),
                                           ![w].ret = "None",
                                           ![w].fin = Finishes(nodrive)]
              ELSE IF files = <<>>
                THEN /\ Return(w, "None", hello \o nofile)
                     /\ run' = [run EXCEPT ![w].emitted =
                                             Emit(w, hello \o nofile),
                                           ![w].drive = DriveResult(drive),
                                           ![w].ret = "None",
                                           ![w].fin = Finishes(nofile),
                                           ![w].listed = {}]
              ELSE /\ Len(Put(w, hello \o found)) <= MaxQueue
                   /\ queue' = Put(w, hello \o found)
                   /\ pc' = [pc EXCEPT ![w] = "r_open"]
                   /\ run' = [run EXCEPT
                        ![w].emitted = Emit(w, hello \o found),
                        ![w].drive = DriveResult(drive),
                        ![w].snapshot = local,
                        ![w].latest = KeyOf(files[1]),
                        ![w].listed = {KeyOf(a) : a \in Range(files)}]
  /\ UNCHANGED <<now, conf, archives, local, ui_locked, cancel_enabled,
                 last_run_minute, sched>>

\* The handler of the inner try: "Zip Error", finish(False, str(e)).
RestoreRaise(w, before) ==
  LET evs == before \o <<LogEv("Zip Error"), FinishEv(FALSE, "error")>>
  IN  /\ Return(w, "None", evs)
      /\ run' = [run EXCEPT ![w].emitted = Emit(w, evs),
                            ![w].ret = "None", ![w].fin = Finishes(evs)]

\* zipfile.ZipFile(latest_backup, 'r') can be read when the file is there
\* and holds a closed archive.
Readable(key) == \E a \in ArchiveAt(key) : a.state \in {"complete", "partial"}

\* "Analyzing archive...", opening the archive, namelist() and the
\* analysis pass.
RestoreOpen(w) ==
  /\ pc[w] = "r_open"
  /\ \E ok \in BOOLEAN :
       /\ ok => Readable(run[w].latest)
       /\ Fault(~ok /\ Readable(run[w].latest))
       /\ IF ok
            THEN LET zf  == CHOOSE a \in ArchiveAt(run[w].latest) : TRUE
                     evs == <<LogEv("Analyzing archive...")>>
                              \o AnalysisPass(Len(zf.members))
                 IN  /\ Len(Put(w, evs)) <= MaxQueue
                     /\ queue' = Put(w, evs)
                     /\ pc' = [pc EXCEPT ![w] = "r_check"]
                     /\ run' = [run EXCEPT ![w].emitted = Emit(w, evs),
                                           ![w].files = zf.members,
                                           ![w].opened = TRUE]
            ELSE RestoreRaise(w, <<LogEv("Analyzing archive...")>>)
  /\ UNCHANGED <<now, conf, drive_exists, archives, local, ui_locked,
                 cancel_enabled, last_run_minute, sched>>

\* The top of the extraction loop: the end of the loop, the cancellation
\* checkpoint, the path guard and the ignore filter.
RestoreCheck(w) ==
  /\ pc[w] = "r_check"
  /\ LET total == Len(run[w].files)
         done  == <<LogEv("[SUCCESS] Restore completed"),
                    FinishEv(TRUE, "Restore Complete")>>
         stop  == <<FinishEv(FALSE, "Cancelled")>>
     IN  IF run[w].idx = total
           THEN /\ Return(w, "None", done)
                /\ run' = [run EXCEPT ![w].emitted = Emit(w, done),
                                      ![w].ret = "None",
                                      ![w].fin = Finishes(done)]
         ELSE IF run[w].stop
           THEN /\ Return(w, "None", stop)
                /\ run' = [run EXCEPT ![w].emitted = Emit(w, stop),
                                      ![w].ret = "None",
                                      ![w].fin = Finishes(stop)]
         ELSE LET name == run[w].files[run[w].idx + 1].path
              IN  IF PathGuard(name)
                    THEN /\ run' = [run EXCEPT ![w].idx = @ + 1,
                                               ![w].guarded = @ \cup {name}]
                         /\ UNCHANGED <<pc, queue>>
                  ELSE IF should_ignore(name, cfg.ignore_patterns)
                    THEN /\ run' = [run EXCEPT ![w].idx = @ + 1]
                         /\ UNCHANGED <<pc, queue>>
                  ELSE /\ pc' = [pc EXCEPT ![w] = "r_extract"]
                       /\ UNCHANGED <<run, queue>>
  /\ UNCHANGED <<now, conf, drive_exists, archives, local, ui_locked,
                 cancel_enabled, last_run_minute, sched, hist>>

\* An extraction without its try: a member that fails to extract ends
\* the run in the handler of the inner try.  (C18 is checked against it.)
ExtractOrRaise(w) ==
  /\ pc[w] = "r_extract"
  /\ LET total  == Len(run[w].files)
         member == run[w].files[run[w].idx + 1]
         target == ExtractTarget(member.path)
         prog   == <<ProgressEv(total + 9 * (run[w].idx + 1), 10 * total,
                                "Copying files...")>>
     IN  \E ok \in BOOLEAN :
           /\ Fault(~ok)
           /\ IF ok
                THEN /\ local' = {e \in local : e.path # target}
                                   \cup {Entry(target, member.data)}
                     /\ Len(Put(w, prog)) <= MaxQueue
                     /\ queue' = Put(w, prog)
                     /\ run' = [run EXCEPT
                          ![w].emitted = Emit(w, prog),
                          ![w].idx = @ + 1,
                          ![w].written = @ \cup {[from |-> member.path,
                                                   path |-> target,
                                                   data |-> member.data]}]
                     /\ pc' = [pc EXCEPT ![w] = "r_check"]
                ELSE /\ UNCHANGED local
                     /\ Return(w, "None", <<FinishEv(FALSE, "error")>>)
                     /\ run' = [run EXCEPT
                          ![w].emitted =
                            Emit(w, <<FinishEv(FALSE, "error")>>),
                          ![w].ret = "None",
                          ![w].fin = <<FinishEv(FALSE, "error")>>,
                          ![w].errors = @ \cup {member.path}]
  /\ UNCHANGED <<now, conf, drive_exists, archives, ui_locked,
                 cancel_enabled, last_run_minute, sched>>

\* zf.extract(file, base_user_path) in its try, then the progress event
\* 0.1 + (idx + 1) / total_files * 0.9; a member that raises is logged
\* and skipped (continue: no progress event).
RestoreExtract(w) ==
  /\ pc[w] = "r_extract"
  /\ LET total  == Len(run[w].files)
         member == run[w].files[run[w].idx + 1]
         target == ExtractTarget(member.path)
         prog   == <<ProgressEv(total + 9 * (run[w].idx + 1), 10 * total,
                                "Copying files...")>>
     IN  \E ok \in BOOLEAN :
           /\ Fault(~ok)
           /\ IF ok
                THEN /\ local' = {e \in local : e.path # target}
                                   \cup {Entry(target, member.data)}
                     /\ Len(Put(w, prog)) <= MaxQueue
                     /\ queue' = Put(w, prog)
                     /\ run' = [run EXCEPT
                          ![w].emitted = Emit(w, prog),
                          ![w].idx = @ + 1,
                          ![w].written = @ \cup {[from |-> member.path,
                                                   path |-> target,
                                                   data |-> member.data]}]
                ELSE /\ UNCHANGED local
                     /\ Len(Put(w, <<LogEv("SKIPPED")>>)) <= MaxQueue
                     /\ queue' = Put(w, <<LogEv("SKIPPED")>>)
                     /\ run' = [run EXCEPT
                          ![w].emitted = Emit(w, <<LogEv("SKIPPED")>>),
                          ![w].idx = @ + 1,
                          ![w].errors = @ \cup {member.path}]
  /\ pc' = [pc EXCEPT ![w] = "r_check"]
  /\ UNCHANGED <<now, conf, drive_exists, archives, ui_locked,
                 cancel_enabled, last_run_minute, sched>>

\* ---------------------------------------------------------------- SyncApp

\* SyncApp.start_backup: lock_ui(True), a new SyncLogic, its thread.
StartBackup ==
  /\ ~ui_locked
  /\ pc[User] = "idle"
  /\ hist.runs < MaxRuns
  /\ hist' = [hist EXCEPT !.runs = @ + 1]
  /\ ui_locked' = TRUE
  /\ cancel_enabled' = TRUE
  /\ run' = [run EXCEPT ![User] = NewRun("backup", FALSE)]
  /\ pc' = [pc EXCEPT ![User] = "b_start"]
  /\ UNCHANGED <<now, conf, drive_exists, archives, local, queue,
                 last_run_minute, sched>>

\* SyncApp.confirm_restore, the question answered yes.
ConfirmRestore ==
  /\ ~ui_locked
  /\ pc[User] = "idle"
  /\ hist.runs < MaxRuns
  /\ hist' = [hist EXCEPT !.runs = @ + 1]
  /\ ui_locked' = TRUE
  /\ cancel_enabled' = TRUE
  /\ run' = [run EXCEPT ![User] = NewRun("restore", FALSE)]
  /\ pc' = [pc EXCEPT ![User] = "r_start"]
  /\ UNCHANGED <<now, conf, drive_exists, archives, local, queue,
                 last_run_minute, sched>>

\* A cancel button that disables itself and leaves stop_requested alone.
\* (C17 is checked against it.)
CancelIgnored ==
  /\ cancel_enabled
  /\ run[User].kind # "none"
  /\ cancel_enabled' = FALSE
  /\ run' = [run EXCEPT ![User].cancel_at = run[User].idx,
                        ![User].cancel_pc = pc[User]]
  /\ UNCHANGED <<now, conf, drive_exists, archives, local, pc, queue,
                 ui_locked, last_run_minute, sched, hist>>

\* SyncApp.cancel_operation: self.logic.abort(), the button disabled.
CancelOperation ==
  /\ cancel_enabled
  /\ run[User].kind # "none"
  /\ cancel_enabled' = FALSE
  /\ run' = [run EXCEPT ![User].stop = TRUE,
                        ![User].cancel_at = run[User].idx,
                        ![User].cancel_pc = pc[User]]
  /\ UNCHANGED <<now, conf, drive_exists, archives, local, pc, queue,
                 ui_locked, last_run_minute, sched, hist>>

\* The scheduler's log line, and the events of the queue that are it or
\* are not (those a worker's SyncLogic put).
Triggered == LogEv("Auto-Backup triggered")

FromScheduler(evs) == SelectSeq(evs, LAMBDA e : e = Triggered)

FromWorker(evs) == SelectSeq(evs, LAMBDA e : e # Triggered)

\* SyncApp.check_queue: every queued event is taken, in the order of the
\* queue, and applied (log_to_ui, update_progress_ui, on_finish); a
\* finish event runs on_finish (lock_ui(False), the CANCEL button
\* disabled).  What was applied is kept with the producer: the worker's
\* events in run, the count of the scheduler's lines in sched.
CheckQueue ==
  /\ queue # <<>>
  /\ queue' = <<>>
  /\ IF Finishes(queue) # <<>>
       THEN ui_locked' = FALSE /\ cancel_enabled' = FALSE
       ELSE UNCHANGED <<ui_locked, cancel_enabled>>
  /\ run' = [run EXCEPT ![User].applied = @ \o FromWorker(queue)]
  /\ sched' = [sched EXCEPT !.shown = @ + Len(FromScheduler(queue))]
  /\ UNCHANGED <<now, conf, drive_exists, archives, local, pc,
                 last_run_minute, hist>>

\* The files below base_user_path are removed by the user (the restore
\* of a round trip starts from an empty target root).
EmptyTargetRoot ==
  /\ pc[User] = "idle"
  /\ local # {}
  /\ local' = {}
  /\ UNCHANGED <<now, conf, drive_exists, archives, pc, run, queue,
                 ui_locked, cancel_enabled, last_run_minute, sched, hist>>

\* The clock advances.
Tick(limit) ==
  /\ now < limit
  /\ now' = now + 1
  /\ UNCHANGED <<conf, drive_exists, archives, local, pc, run, queue,
                 ui_locked, cancel_enabled, last_run_minute, sched, hist>>

TickRun == Tick(FirstNow + MaxRunClock)

TickDay == Tick(MaxNow)

\* ---------------------------------------------------------- scheduler_loop

\* The occurrence of a clock minute the clock value t lies in.
Occurrence(t) == t \div TicksPerMinute

\* The test with its comparison to last_run_minute taken out.  (C8 is
\* checked against it.)
ShouldTriggerOnMatch(current_hm, scheduled, last) == current_hm \in scheduled

\* current_hm in scheduled and current_hm != last_run_minute
ShouldTrigger(current_hm, scheduled, last) ==
  current_hm \in scheduled /\ current_hm # last

\* One pass of the loop of scheduler_loop.  When the minute is to fire,
\* active_count() is read: others are the live threads that are neither
\* main, scheduler nor worker.  The model follows one thread of the
\* backups the scheduler starts: a backup started while that one still
\* runs is counted in starts and is one of the others from then on.
SchedulerPoll ==
  LET current_hm == FormatHM(now)
      fire == ShouldTrigger(current_hm, cfg.scheduled_times, last_run_minute)
  IN  \E others \in (IF fire THEN 0..MaxOtherThreads ELSE {MaxOtherThreads}) :
        LET room  == ActiveCount(others) < ThreadLimit
            start == fire /\ room
        IN  /\ IF fire
                 THEN /\ Len(queue) < MaxQueue
                      /\ queue' = Append(queue, Triggered)
                      /\ last_run_minute' = current_hm
                 ELSE UNCHANGED <<queue, last_run_minute>>
            /\ IF start /\ pc[Auto] = "idle"
                 THEN /\ pc' = [pc EXCEPT ![Auto] = "b_start"]
                      /\ run' = [run EXCEPT ![Auto] = NewRun("backup", TRUE)]
                 ELSE UNCHANGED <<pc, run>>
            /\ sched' =
                 [starts  |-> IF start
                                THEN Append(sched.starts, Occurrence(now))
                                ELSE sched.starts,
                  skipped |-> IF fire /\ ~room
                                THEN sched.skipped \cup {Occurrence(now)}
                                ELSE sched.skipped,
                  poll    |-> [occ     |-> Occurrence(now),
                               matched |-> current_hm \in cfg.scheduled_times,
                               first   |-> sched.poll.occ # Occurrence(now),
                               room    |-> room,
                               started |-> start],
                  shown   |-> sched.shown]
            /\ UNCHANGED <<now, conf, drive_exists, archives, local, ui_locked,
                           cancel_enabled, hist>>

\* SyncApp.startup_scan, a second after the start: scan_for_backups in a
\* thread of its own, on the queue of the window.  ensure_drive, then the
\* listing, newest name first, a line for each file.
StartupScan ==
  /\ hist.scan.drive = "none"
  /\ \E drive \in DriveOutcomes :
       LET files == ListBackups
           lines == IF files = <<>>
                      THEN <<LogEv("=== No remote backups found ===")>>
                    ELSE <<LogEv("=== Found remote backups ===")>>
                           \o [i \in 1..Len(files) |-> LogEv("file")]
                           \o <<LogEv("===")>>
           evs   == IF DriveReady(drive) THEN lines ELSE DriveLog(drive)
       IN  /\ drive = "failed" => hist.faults < MaxFaults
           /\ Len(queue \o evs) <= MaxQueue
           /\ queue' = queue \o evs
           /\ drive_exists' = (drive_exists \/ drive = "made")
           /\ hist' = [hist EXCEPT
                 !.faults = IF drive = "failed" THEN @ + 1 ELSE @,
                 !.scan = [drive  |-> DriveResult(drive),
                           listed |-> IF DriveReady(drive)
                                        THEN {KeyOf(a) : a \in Range(files)}
                                      ELSE {}]]
  /\ UNCHANGED <<now, conf, archives, local, pc, run, ui_locked,
                 cancel_enabled, last_run_minute, sched>>

\* The scheduler's backup is over and the user has not started one: the
\* storage root is put back as it was before (the new archive taken away,
\* the pruned ones put back), what that backup did is kept for the
\* comparison, and the count of I/O failures starts again.
PutBack ==
  /\ ~hist.twin.done
  /\ hist.runs = 0
  /\ pc[Auto] = "idle" /\ pc[User] = "idle"
  /\ run[Auto].kind = "backup"
  /\ archives' = hist.twin.root
  /\ drive_exists' = hist.twin.exists
  /\ hist' = [hist EXCEPT !.faults = 0,
                          !.twin = [@ EXCEPT !.done = TRUE,
                                             !.run = run[Auto],
                                             !.after = archives,
                                             !.made = drive_exists]]
  /\ UNCHANGED <<now, conf, local, pc, run, queue, ui_locked, cancel_enabled,
                 last_run_minute, sched>>

\* The user's backup of the comparison, the one backup the user starts,
\* starts from the storage root the scheduler's started from.
StartTwin == hist.twin.done /\ hist.runs = 0 /\ StartBackup

\* ------------------------------------------------------------- SyncConfig

\* DEFAULT_CONFIG (compression_level, which nothing reads, is left out).
DEFAULT_CONFIG ==
  [drive_path       |-> <<>>,
   target_folders   |-> <<SegA>>,
   retention_count  |-> 2,
   ignore_patterns  |-> {SegGit, <<"*", ".", "t">>},
   scheduled_times  |-> {}]

\* What CONFIG_FILE can be: absent; there but not to be opened; not JSON;
\* JSON that is no object (a list, a number); a JSON object.  by: who
\* wrote it last, the user ("user") or save_config ("app").
NoFile == [kind |-> "none", by |-> "user"]

Unreadable == [kind |-> "unreadable", by |-> "user"]

Garbage == [kind |-> "garbage", by |-> "user"]

NotObject == [kind |-> "list", by |-> "user"]

ObjectFile(obj, by) == [kind |-> "object", value |-> obj, by |-> by]

\* SyncConfig.load_config: what self.config becomes.
load_config(file) ==
  IF file.kind \in {"none", "unreadable", "garbage"}
    THEN [kind |-> "object", value |-> DEFAULT_CONFIG]
  ELSE IF file.kind = "list" THEN [kind |-> "list"]
  ELSE [kind |-> "object", value |-> file.value]

\* SyncConfig.detect_drive_path: the path it settles on.
DetectedPath == <<"g">>

\* The text of the retention entry of the settings dialog as int() reads
\* it: a number, or not one.
NoEntry == [ok |-> FALSE, val |-> 0]

\* The process once SyncApp.__init__ is through.
Running == [status |-> "up", entry |-> NoEntry]

\* SyncConfig.__init__: load_config, then self.config["drive_path"] is
\* read (a KeyError or TypeError ends the start of the process) and,
\* when it is empty, replaced by the detected path.
Construct ==
  /\ app.status = "off"
  /\ LET loaded == load_config(config_file)
     IN  IF loaded.kind # "object"
           THEN app' = [app EXCEPT !.status = "failed"] /\ UNCHANGED cfg
         ELSE IF "drive_path" \notin DOMAIN loaded.value
           THEN app' = [app EXCEPT !.status = "failed"] /\ UNCHANGED cfg
         ELSE /\ app' = Running
              /\ cfg' = IF loaded.value.drive_path = <<>>
                          THEN [loaded.value EXCEPT !.drive_path = DetectedPath]
                          ELSE loaded.value
  /\ UNCHANGED <<now, config_file, call, drive_exists, archives, local, pc,
                 run, queue, ui_locked, cancel_enabled, last_run_minute,
                 sched, hist>>

\* SyncConfig.get: the key's value, or the default's.
get(config, key) ==
  IF key \in DOMAIN config THEN config[key] ELSE DEFAULT_CONFIG[key]

\* self.config[key] = value
Assign(config, key, value) ==
  [k \in DOMAIN config \cup {key} |-> IF k = key THEN value ELSE config[k]]

\* The two tests of save_config on retention_count.
Unclamped(r) == r

Clamp(r) ==
  LET capped == IF r > 7 THEN 7 ELSE r
  IN  IF capped < 1 THEN 1 ELSE capped

\* SyncConfig.save_config raises (KeyError) without writing the file
\* when the configuration has no retention_count.
CanSave(config) == "retention_count" \in DOMAIN config

\* SyncConfig.set: the configuration after it, retention_count clamped by
\* save_config.
set(config, key, value) ==
  LET assigned == Assign(config, key, value)
  IN  [assigned EXCEPT !.retention_count = Clamp(@)]

\* re.match(r"^\d{2}:\d{2}$", t)
IsDigit(c) == c \in {"0", "1", "2", "3", "4", "5", "6", "7", "8", "9"}

ValidTime(t) ==
  /\ Len(t) = 5
  /\ IsDigit(t[1]) /\ IsDigit(t[2]) /\ t[3] = ":"
  /\ IsDigit(t[4]) /\ IsDigit(t[5])

\* What the user can type in the settings dialog.
MaxEntered == 9

EnteredRetention ==
  {[ok |-> TRUE, val |-> r] : r \in ((0 - 1)..MaxEntered) \cup {20}}
    \cup {NoEntry}

EnteredTimes == SUBSET {FormatHM(0), <<"0", ":", "1">>}

EnteredPaths == {<<>>, <<"g">>}

\* SettingsDialog.save_settings: drive_path, target_folders,
\* ignore_patterns, scheduled_times and retention_count are set one after
\* the other, each set saving the file; the first set raises when the
\* file cannot be saved, and a retention entry that is no number is
\* passed over.
SaveSettings ==
  /\ app.status = "up"
  /\ \E path \in EnteredPaths : \E folders \in {<<SegA>>, <<SegGit>>} :
     \E times \in EnteredTimes : \E entry \in EnteredRetention :
       LET first == Assign(cfg, "drive_path", path)
           valid == {t \in times : ValidTime(t)}
           c1    == set(cfg, "drive_path", path)
           c2    == set(c1, "target_folders", folders)
           c3    == set(c2, "ignore_patterns", get(cfg, "ignore_patterns"))
           c4    == set(c3, "scheduled_times", valid)
           c5    == IF entry.ok THEN set(c4, "retention_count", entry.val)
                    ELSE c4
       IN  /\ app' = [app EXCEPT !.entry = entry]
           /\ IF CanSave(first)
                THEN /\ cfg' = c5
                     /\ config_file' = ObjectFile(c5, "app")
                ELSE /\ cfg' = first
                     /\ UNCHANGED config_file
  /\ UNCHANGED <<now, call, drive_exists, archives, local, pc, run, queue,
                 ui_locked, cancel_enabled, last_run_minute, sched, hist>>

\* SyncApp.quit_app: the process ends, to be started again.
QuitApp ==
  /\ app.status = "up"
  /\ \A w \in Workers : pc[w] = "idle"
  /\ app' = [status |-> "off", entry |-> NoEntry]
  /\ UNCHANGED <<now, cfg, config_file, call, drive_exists, archives, local,
                 pc, run, queue, ui_locked, cancel_enabled, last_run_minute,
                 sched, hist>>

\* ------------------------------------------------------------ initial state

\* DEFAULT_CONFIG with small values; the patterns stand for ".git" and
\* "*.tmp".
Patterns == {SegGit, <<"*", ".", "t">>}

Config(folders, retention, times) ==
  [drive_path       |-> <<"g">>,
   target_folders   |-> folders,
   retention_count  |-> retention,
   ignore_patterns  |-> Patterns,
   scheduled_times  |-> times]

\* The files of folder "a" (one kept, one ignored by name, one below an
\* ignored directory, one below a kept directory), a file of a folder
\* named ".g", and the empty folder "d".
TreeFull ==
  {Entry(<<SegA, SegF>>, 1), Entry(<<SegA, SegTmp>>, 2),
   Entry(<<SegA, SegGit, SegF>>, 3), Entry(<<SegA, SegD, SegF>>, 4),
   Entry(<<SegGit, SegF>>, 5), Entry(<<SegD>>, 0)}

TreeIgnoredOnly ==
  {Entry(<<SegA, SegTmp>>, 2), Entry(<<SegA, SegGit, SegF>>, 3),
   Entry(<<SegD>>, 0)}

\* target_folders as the configuration file may hold them: "a"; a missing
\* folder, " a " and a blank entry; ".g"; the empty folder "d".
FoldersA == <<SegA>>

FoldersPadded == <<SegM, <<" ", "a", " ">>, <<" ">>>>

FoldersGit == <<SegGit>>

FoldersEmpty == <<SegD, SegM>>

\* Archives found at the storage root: earlier backups of this machine,
\* and one of another machine whose members a restore must not trust.
Earlier(t) ==
  Archive(Hostname, t, "complete", <<Entry(<<SegA, SegF>>, 1)>>)

Foreign ==
  Archive(OtherHost, 1, "complete",
          <<Entry(<<SegUp, SegUp, SegF>>, 7), Entry(<<<<>>, SegF>>, 8),
            Entry(<<SegA, SegUp, SegUp, SegF>>, 9),
            Entry(<<SegA, SegF>>, 6)>>)

\* The process is up, its configuration loaded from the file.
Loaded ==
  /\ app = Running
  /\ config_file = ObjectFile(cfg, "user")
  /\ call = NoCall

InitSched ==
  [starts  |-> <<>>,
   skipped |-> {},
   poll    |-> [occ |-> -1, matched |-> FALSE, first |-> FALSE,
                room |-> FALSE, started |-> FALSE],
   shown   |-> 0]

InitHist ==
  [runs |-> 0, faults |-> 0, backup |-> NoBackup, scan |-> NoScan,
   twin |-> NoTwin]

InitIdle ==
  /\ now = FirstNow
  /\ pc = [w \in Workers |-> "idle"]
  /\ run = [w \in Workers |-> NewRun("none", FALSE)]
  /\ queue = <<>>
  /\ ui_locked = FALSE
  /\ cancel_enabled = FALSE
  /\ last_run_minute = <<>>
  /\ sched = InitSched

InitCommon ==
  /\ InitIdle
  /\ hist = InitHist

\* The engine: every folder list and tree with an empty storage root
\* (there or still to be made), and folder "a" of the full tree with every
\* retention count and every catalogue of earlier archives.
Init ==
  /\ InitCommon
  /\ \/ /\ \E folders \in {FoldersA, FoldersPadded, FoldersGit, FoldersEmpty} :
             cfg = Config(folders, 2, {})
        /\ local \in {TreeFull, TreeIgnoredOnly, {}}
        /\ drive_exists \in BOOLEAN
        /\ archives = {}
     \/ /\ \E retention \in -1..2 : cfg = Config(FoldersA, retention, {})
        /\ local = TreeFull
        /\ drive_exists = TRUE
        /\ archives \in {{Earlier(0)}, {Earlier(0), Earlier(1)}, {Foreign},
                         {Earlier(0), Foreign}}
  /\ Loaded

\* The scheduler: a schedule of no, one or every minute of the day.
InitSchedule ==
  /\ InitCommon
  /\ \E times \in SUBSET {FormatHM(m * TicksPerMinute) :
                            m \in 0..(MinutesPerDay - 1)} :
       cfg = Config(FoldersA, 1, times)
  /\ local \in {TreeFull, {}}
  /\ drive_exists = TRUE
  /\ archives = {}
  /\ Loaded

\* ------------------------------------------------------------------- steps

Step(w) ==
  \/ BackupScan(w)
  \/ BackupOpen(w)
  \/ BackupCheck(w)
  \/ BackupWrite(w)
  \/ BackupClose(w)
  \/ BackupPrune(w)

RestoreStep(w) ==
  \/ RestoreSelect(w)
  \/ RestoreOpen(w)
  \/ RestoreCheck(w)
  \/ RestoreExtract(w)

Next ==
  \/ StartBackup
  \/ ConfirmRestore
  \/ CancelOperation
  \/ CheckQueue
  \/ EmptyTargetRoot
  \/ TickRun
  \/ Step(User)
  \/ RestoreStep(User)

Spec == Init /\ [][Next]_vars

NextSchedule ==
  \/ TickDay
  \/ SchedulerPoll
  \/ CheckQueue
  \/ Step(Auto)

SpecSchedule == InitSchedule /\ [][NextSchedule]_vars

\* The user's runs beside the scheduler's: one schedule, folder "a"
\* holding one file to back up or none.
TreeOne == {Entry(<<SegA, SegF>>, 1), Entry(<<SegA, SegTmp>>, 2)}

InitAll ==
  /\ InitCommon
  /\ cfg = Config(FoldersA, 1, {FormatHM(FirstNow)})
  /\ local \in {TreeOne, TreeIgnoredOnly}
  /\ drive_exists = TRUE
  /\ archives = {}
  /\ Loaded

NextAll ==
  \/ StartBackup
  \/ ConfirmRestore
  \/ CancelOperation
  \/ CheckQueue
  \/ TickRun
  \/ Step(User)
  \/ RestoreStep(User)
  \/ SchedulerPoll
  \/ Step(Auto)

SpecAll == InitAll /\ [][NextAll]_vars

\* The configuration: the process is started on every kind of file, the
\* settings are saved, the process ends and is started again.
ConfigFiles ==
  {NoFile, Unreadable, Garbage, NotObject,
   ObjectFile([retention_count |-> 3], "user"),
   ObjectFile([drive_path |-> <<"g">>], "user")}
    \cup {ObjectFile(Config(FoldersA, r, {}), "user") : r \in {0, 3, 20}}

InitConfig ==
  /\ InitCommon
  /\ cfg = DEFAULT_CONFIG
  /\ config_file \in ConfigFiles
  /\ app = [status |-> "off", entry |-> NoEntry]
  /\ call = NoCall
  /\ local = {}
  /\ drive_exists = TRUE
  /\ archives = {}

NextConfig ==
  \/ Construct
  \/ SaveSettings
  \/ QuitApp

SpecConfig == InitConfig /\ [][NextConfig]_vars

\* The storage root: set and there, set and still to be made, or unset,
\* under the startup scan, the user's runs and the scheduler's.
Unset(config) == [config EXCEPT !.drive_path = <<>>]

InitDrive ==
  /\ InitCommon
  /\ \/ /\ cfg = Config(FoldersA, 1, {FormatHM(FirstNow)})
        /\ \/ drive_exists = FALSE /\ archives = {}
           \/ drive_exists = TRUE /\ archives = {Earlier(0)}
     \/ /\ cfg = Unset(Config(FoldersA, 1, {FormatHM(FirstNow)}))
        /\ drive_exists = FALSE
        /\ archives = {}
  /\ local = TreeOne
  /\ Loaded

NextDrive ==
  \/ StartupScan
  \/ StartBackup
  \/ ConfirmRestore
  \/ CheckQueue
  \/ Step(User)
  \/ RestoreStep(User)
  \/ SchedulerPoll
  \/ Step(Auto)

SpecDrive == InitDrive /\ [][NextDrive]_vars

\* The silent backup beside the interactive one: the scheduler's backup
\* runs at its minute, the storage root is put back, and the user's backup
\* runs in the same second from the same tree and storage root.
InitTwin ==
  /\ InitIdle
  /\ \E folders \in {FoldersA, FoldersPadded, FoldersEmpty} :
     \E retention \in 0..2 :
       cfg = Config(folders, retention, {FormatHM(FirstNow)})
  /\ local \in {TreeFull, TreeIgnoredOnly}
  /\ \/ drive_exists = FALSE /\ archives = {}
     \/ /\ drive_exists = TRUE
        /\ archives \in {{}, {Earlier(0)}, {Earlier(0), Earlier(1)},
                         {Earlier(0), Foreign}}
  /\ hist = [InitHist EXCEPT !.twin.root = archives,
                             !.twin.exists = drive_exists]
  /\ Loaded

NextTwin ==
  \/ SchedulerPoll
  \/ Step(Auto)
  \/ PutBack
  \/ StartTwin
  \/ Step(User)
  \/ CheckQueue

SpecTwin == InitTwin /\ [][NextTwin]_vars

\* The filter alone: should_ignore is called on every path of up to
\* MaxRaw characters with every set of patterns.
MaxRaw == 4

RawChars == {"a", "A", ".", "g", "/", "\\"}

RECURSIVE RawPaths(_)
RawPaths(n) ==
  IF n = 0 THEN {<<>>}
  ELSE LET shorter == RawPaths(n - 1)
       IN  shorter \cup {Append(r, c) : r \in shorter, c \in RawChars}

PatternSets == SUBSET {<<".", "g">>, <<"*", "g">>, <<"a">>}

CallShouldIgnore ==
  /\ call.ret = "pending"
  /\ call' = Returned(call.path, call.patterns)
  /\ UNCHANGED <<now, cfg, config_file, app, drive_exists, archives, local,
                 pc, run, queue, ui_locked, cancel_enabled, last_run_minute,
                 sched, hist>>

InitIgnore ==
  /\ InitCommon
  /\ cfg = DEFAULT_CONFIG
  /\ app = Running
  /\ config_file = NoFile
  /\ \E raw \in RawPaths(MaxRaw) : \E patterns \in PatternSets :
       call = Calling(raw, patterns)
  /\ local = {}
  /\ drive_exists = TRUE
  /\ archives = {}

NextIgnore == CallShouldIgnore

SpecIgnore == InitIgnore /\ [][NextIgnore]_vars

\* ------------------------------------------------------------- properties

Max(a, b) == IF a >= b THEN a ELSE b

\* A run of the kind that has returned.
Ended(w, kind) == run[w].kind = kind /\ run[w].ret # "running"

\* C1: a backup whose prune step found N archives at the storage root,
\* with a retention count R of at least one and no removal failing, has
\* deleted exactly max(0, N - R) of them, and every archive it deleted is
\* at least as old as every archive it kept.
C1_PruneDeletesOldest ==
  \A w \in Workers :
    (/\ Ended(w, "backup")
     /\ run[w].ret = "True"
     /\ run[w].kept_err = {}
     /\ cfg.retention_count >= 1)
    => /\ Cardinality(run[w].deleted)
            = Max(0, Cardinality(run[w].listed) - cfg.retention_count)
       /\ \A d \in run[w].deleted : \A k \in run[w].listed \ run[w].deleted :
            d.t <= k.t

\* C1: a prune step has deleted the archive its own run had just written
\* and kept an older one.
C1_NewestDeleted ==
  \E w \in Workers :
    /\ run[w].ret = "True"
    /\ DestKey(w) \in run[w].deleted
    /\ \E k \in run[w].listed \ run[w].deleted : k.t < run[w].stamp

NotIgnored(tree, folders, patterns) ==
  {e \in tree :
     /\ e.data # 0
     /\ Len(e.path) >= 2
     /\ \E i \in 1..Len(folders) : e.path[1] = Strip(folders[i])
     /\ \A j \in 2..Len(e.path) : \A p \in patterns : ~fnmatch(e.path[j], p)}

\* What a restore has extracted, as a tree.
Restored(w) == {Entry(x.path, x.data) : x \in run[w].written}

\* A restore that ended in success with no member failing, from the
\* archive of the last successful backup (none of whose files failed),
\* into a target root that was empty.
RoundTrip(w) ==
  /\ Ended(w, "restore")
  /\ run[w].fin = <<FinishEv(TRUE, "Restore Complete")>>
  /\ run[w].errors = {}
  /\ run[w].snapshot = {}
  /\ hist.backup.key # NoKey
  /\ hist.backup.errors = {}
  /\ run[w].latest = hist.backup.key

\* C3: after a backup and a restore of its archive into an empty target
\* root, the archive holds exactly the non-ignored files of the backed-up
\* tree, and the restored tree is exactly those files, with their paths
\* and content.
C3_RoundTripExact ==
  \A w \in Workers :
    RoundTrip(w) =>
      LET kept == NotIgnored(hist.backup.snapshot, cfg.target_folders,
                             cfg.ignore_patterns)
      IN  /\ Range(run[w].files) = kept
          /\ Restored(w) = kept

\* C3: a round trip whose archive holds a file that the restore left out.
C3_ArchivedFileNotRestored ==
  \E w \in Workers :
    /\ RoundTrip(w)
    /\ \E m \in Range(run[w].files) : m \notin Restored(w)

\* A round trip of a folder that no ignore pattern names reproduces the
\* non-ignored files.
C3_RoundTripPlainFolders ==
  \A w \in Workers :
    (/\ RoundTrip(w)
     /\ \A i \in 1..Len(cfg.target_folders) : \A p \in cfg.ignore_patterns :
          ~fnmatch(Strip(cfg.target_folders[i]), p))
    => /\ Range(run[w].files)
            = NotIgnored(hist.backup.snapshot, cfg.target_folders,
                         cfg.ignore_patterns)
       /\ Restored(w) = Range(run[w].files)

\* A member path that is absolute or begins with a ".." segment.
LeadsOut(name) == name[1] = <<>> \/ name[1] = SegUp

\* The member was extracted, to some place.
WrittenFrom(w, name) == \E x \in run[w].written : x.from = name

\* The member was skipped by the guard: not extracted, no error logged.
SkippedByGuard(w, name) ==
  /\ name \in run[w].guarded
  /\ name \notin run[w].errors
  /\ ~WrittenFrom(w, name)

\* C4 as stated: a restore writes nothing outside the target root, and
\* every member it has passed whose path is absolute or leaves the target
\* root through ".." segments was skipped, without error and without
\* being written anywhere.
C4_EscapingMembersNeverWritten ==
  \A w \in Workers :
    run[w].kind = "restore" =>
      /\ \A x \in run[w].written : ~EscapesRoot(x.path)
      /\ \A i \in 1..run[w].idx :
           EscapesRoot(run[w].files[i].path)
             => SkippedByGuard(w, run[w].files[i].path)

\* C4, amended: a restore writes nothing outside the target root; every
\* member it has passed whose path is absolute or begins with a ".."
\* segment was skipped, without error and without being written
\* anywhere; every other member whose path is not ignored (and whose
\* first segment does not begin with "..") was extracted or logged as
\* failed.
C4_LeadingDotsAndAbsoluteSkipped ==
  \A w \in Workers :
    run[w].kind = "restore" =>
      /\ \A x \in run[w].written : ~EscapesRoot(x.path)
      /\ \A i \in 1..run[w].idx :
           LET name == run[w].files[i].path
           IN  /\ LeadsOut(name) => SkippedByGuard(w, name)
               /\ (/\ ~LeadsOut(name)
                   /\ ~StartsWith(name[1], SegUp)
                   /\ ~should_ignore(name, cfg.ignore_patterns))
                  => (WrittenFrom(w, name) \/ name \in run[w].errors)

\* C4: a restore ended in success on an archive with the members
\* "../../f" and "/f", both skipped, and the member "a/f", extracted.
C4_HostileArchiveRestored ==
  /\ Ended(User, "restore")
  /\ run[User].fin = <<FinishEv(TRUE, "Restore Complete")>>
  /\ run[User].guarded = {<<SegUp, SegUp, SegF>>, <<<<>>, SegF>>}
  /\ run[User].errors = {}
  /\ WrittenFrom(User, <<SegA, SegF>>)

\* A backup that has returned and whose target folders, when it started,
\* were all absent, empty or held only ignored files.
FoundNothing(w) ==
  /\ Ended(w, "backup")
  /\ NotIgnored(run[w].snapshot, cfg.target_folders, cfg.ignore_patterns) = {}

\* The run opened no archive and its prune step removed nothing.
NothingTouched(w) ==
  /\ ~run[w].opened
  /\ run[w].listed = {}
  /\ run[w].deleted = {}
  /\ run[w].kept_err = {}

C6_NameOrderIsTimeOrder ==
  LET files == SortReverse({a \in archives : a.state = "complete"})
  IN  \A i \in 1..Len(files) : \A j \in 1..Len(files) :
        i < j => files[i].t >= files[j].t

\* C6: the storage root holds a complete archive of this machine and an
\* older one whose filename is the greater.
C6_OlderNameGreater ==
  \E a \in archives : \E b \in archives :
    /\ a.host = Hostname /\ a.state = "complete"
    /\ b.t < a.t
    /\ StrLess(NameOf(a), NameOf(b))

\* C7: a restore that found archives took the one with the greatest
\* filename, and none of those it found was created later; a restore
\* that found the storage root without archives has emitted
\* finish(false, "No backups found") and extracted nothing.
C7_RestoreTakesNewest ==
  \A w \in Workers :
    run[w].kind = "restore" =>
      /\ run[w].latest # NoKey =>
           \A k \in run[w].listed \ {run[w].latest} :
             /\ StrLess(ZipName(k.host, k.t),
                        ZipName(run[w].latest.host, run[w].latest.t))
             /\ k.t <= run[w].latest.t
      /\ (Ended(w, "restore") /\ drive_exists /\ archives = {}) =>
           /\ run[w].fin = <<FinishEv(FALSE, "No backups found")>>
           /\ run[w].written = {}

\* C7: a restore has extracted a member of an archive that is older than
\* another archive it found.
C7_RestoredFromOlder ==
  \E w \in Workers :
    /\ run[w].kind = "restore"
    /\ run[w].written # {}
    /\ \E k \in run[w].listed : k.t > run[w].latest.t

\* A restore that found archives took the one with the greatest filename;
\* with none at the storage root it ends with "No backups found".
C7_RestoreTakesGreatestName ==
  \A w \in Workers :
    run[w].kind = "restore" =>
      /\ run[w].latest # NoKey =>
           \A k \in run[w].listed \ {run[w].latest} :
             StrLess(ZipName(k.host, k.t),
                     ZipName(run[w].latest.host, run[w].latest.t))
      /\ (Ended(w, "restore") /\ drive_exists /\ archives = {}) =>
           /\ run[w].fin = <<FinishEv(FALSE, "No backups found")>>
           /\ run[w].written = {}

\* C8: no occurrence of a clock minute has had two silent backups started
\* in it, nor one started and one skipped.
C8_OneStartPerOccurrence ==
  /\ \A i \in 1..Len(sched.starts) : \A j \in 1..Len(sched.starts) :
       i # j => sched.starts[i] # sched.starts[j]
  /\ \A i \in 1..Len(sched.starts) : sched.starts[i] \notin sched.skipped

\* C8: a later poll of an occurrence in which a backup was started has
\* matched the schedule and started nothing.
C8_SecondPollHeld ==
  /\ sched.poll.matched
  /\ ~sched.poll.first
  /\ ~sched.poll.started
  /\ sched.poll.occ \in Range(sched.starts)

\* C9: the first poll of an occurrence of a scheduled minute, made with
\* the thread guard unsaturated, has started a silent backup.
C9_EveryOccurrenceTriggers ==
  (sched.poll.matched /\ sched.poll.first /\ sched.poll.room)
    => sched.poll.started

\* C9: the scheduled minute has come round again a day after a backup
\* was started in it, and its first poll has started nothing.
C9_NextDayMissed ==
  /\ sched.poll.matched /\ sched.poll.first /\ sched.poll.room
  /\ ~sched.poll.started
  /\ sched.poll.occ - MinutesPerDay \in Range(sched.starts)

\* C10: after a backup that opened its destination file and then failed
\* with a fatal error, no file is at its destination path.
C10_FailedBuildLeavesNothing ==
  \A w \in Workers :
    (Ended(w, "backup") /\ run[w].ret = "False" /\ run[w].opened)
      => ArchiveAt(DestKey(w)) = {}

\* C10: a backup has failed with a fatal error after writing its files,
\* and the archive it could not close is at its destination path.
C10_BrokenArchiveLeft ==
  \E w \in Workers :
    /\ Ended(w, "backup")
    /\ run[w].ret = "False"
    /\ run[w].idx = Len(run[w].files)
    /\ \E a \in ArchiveAt(DestKey(w)) : a.state = "broken"

\* C11: a run the user started has emitted no finish event while it
\* runs and exactly one once it has returned, that one being
\* finish(false, ...) after an exception; and the finish event is the
\* last event on the queue (the user's worker is the only producer here).
C11_ExactlyOneFinish ==
  /\ run[User].kind # "none" =>
       /\ run[User].ret = "running" => run[User].fin = <<>> /\ Live(User)
       /\ run[User].ret # "running" =>
            /\ Len(run[User].fin) = 1
            /\ ~Live(User)
       /\ run[User].ret = "False" =>
            run[User].fin = <<FinishEv(FALSE, "error")>>
  /\ \A i \in 1..Len(queue) :
       queue[i].type = "finish" =>
         /\ i = Len(queue)
         /\ run[User].fin = <<queue[i]>>
  /\ Len(Finishes(queue)) <= 1

\* C11: a backup has ended in the handler of an exception, with its one
\* finish event still on the queue behind the log lines of the run.
C11_ExceptionReported ==
  /\ Ended(User, "backup")
  /\ run[User].ret = "False"
  /\ run[User].opened
  /\ Len(queue) >= 2
  /\ queue[Len(queue)] = FinishEv(FALSE, "error")

\* C12: the events the user's worker has put are those check_queue has
\* applied, in that order, followed by those of its events still on the
\* queue, in the order of the queue (none lost, none twice); and every
\* line the scheduler has put has been applied or is on the queue.
C12_AppliedInEmissionOrder ==
  /\ run[User].emitted = run[User].applied \o FromWorker(queue)
  /\ Len(sched.starts) + Cardinality(sched.skipped)
       = sched.shown + Len(FromScheduler(queue))

\* C12: check_queue has applied events of the run, and on the queue a
\* line of the scheduler lies between two later events of the worker.
C12_SchedulerLineBetween ==
  /\ run[User].applied # <<>>
  /\ \E i \in 1..Len(queue) : \E j \in 1..Len(queue) : \E k \in 1..Len(queue) :
       /\ i < j /\ j < k
       /\ queue[i] # Triggered
       /\ queue[j] = Triggered
       /\ queue[k] # Triggered

Min(a, b) == IF a <= b THEN a ELSE b

\* C13: whenever save_config has written the configuration file, the
\* retention count in it lies in [1, 7], and it is min(7, max(1, r)) for
\* the number r entered in the settings dialog for that save.
C13_PersistedRetentionClamped ==
  config_file.by = "app" =>
    /\ "retention_count" \in DOMAIN config_file.value
    /\ config_file.value.retention_count \in 1..7
    /\ app.entry.ok =>
         config_file.value.retention_count = Min(7, Max(1, app.entry.val))

\* Twenty was entered and seven is in the file.
C13_TwentySavedAsSeven ==
  /\ config_file.by = "app"
  /\ app.entry = [ok |-> TRUE, val |-> 20]
  /\ config_file.value.retention_count = 7

\* C14: the process never fails to start because of the configuration
\* file, whatever the file holds.
C14_StartupNeverFails == app.status # "failed"

\* The file is valid JSON but no object with a drive_path, and the start
\* of the process has ended in an exception.
C14_FailedOnParsableFile ==
  /\ app.status = "failed"
  /\ config_file.kind \in {"list", "object"}

\* The segments of a raw path, said without splitting: the maximal runs
\* of characters free of both separators, as pairs of first and last
\* index (an empty run has last = first - 1).
IsSeparator(c) == c = "/" \/ c = "\\"

SegmentBounds(raw) ==
  {b \in (1..(Len(raw) + 1)) \X (0..Len(raw)) :
     /\ b[2] >= b[1] - 1
     /\ \A k \in b[1]..b[2] : ~IsSeparator(raw[k])
     /\ b[1] = 1 \/ IsSeparator(raw[b[1] - 1])
     /\ b[2] = Len(raw) \/ IsSeparator(raw[b[2] + 1])}

\* C15: should_ignore returns true exactly when some segment of the path,
\* split on both separators, matches some pattern; so with no patterns
\* it ignores nothing, and a path below a segment that matches is ignored
\* at any depth.
C15_IgnoredIffSegmentMatches ==
  call.ret \in {"True", "False"} =>
    /\ call.ret = "True" <=>
         \E b \in SegmentBounds(call.path) : \E p \in call.patterns :
           fnmatch(SubSeq(call.path, b[1], b[2]), p)
    /\ call.patterns = {} => call.ret = "False"

\* The path ".g\a/a" is ignored for the pattern ".g": the directory that
\* matches is two levels up, behind a backslash.
C15_BackslashSegmentIgnored ==
  /\ call.path = <<".", "g", "\\", "a">>
  /\ call.patterns = {<<".", "g">>}
  /\ call.ret = "True"

NoDrive == {"unset", "failed"}

\* A run that ensure_drive stopped has done nothing else: it is over with
\* nothing scanned, listed, opened, written or deleted, an interactive one
\* with the one event finish(False, "Drive not available") after its
\* log lines, a silent one with no event.
AbortedClean(w) ==
  /\ pc[w] = "idle"
  /\ run[w].ret = "None"
  /\ ~run[w].scanned /\ ~run[w].opened
  /\ run[w].files = <<>> /\ run[w].latest = NoKey
  /\ run[w].listed = {} /\ run[w].written = {} /\ run[w].deleted = {}
  /\ run[w].errors = {} /\ run[w].guarded = {}
  /\ IF run[w].silent \/ ~HasQueue(w) THEN run[w].emitted = <<>>
     ELSE /\ run[w].fin = <<FinishEv(FALSE, "Drive not available")>>
          /\ run[w].emitted[Len(run[w].emitted)]
               = FinishEv(FALSE, "Drive not available")

\* C16: when the storage root is unset or cannot be created, a backup, a
\* restore and the catalogue scan stop there: nothing is listed, created,
\* read, deleted or extracted, neither the storage root nor the local
\* tree changes in that step, and an interactive backup or restore
\* reports finish(False, "Drive not available").
C16_NoDriveNoIO ==
  /\ [](/\ \A w \in Workers : run[w].drive \in NoDrive => AbortedClean(w)
        /\ hist.scan.drive \in NoDrive => hist.scan.listed = {})
  /\ [][(\/ \E w \in Workers :
              (run[w].drive = "none" /\ run'[w].drive \in NoDrive)
          \/ (hist.scan.drive = "none" /\ hist'.scan.drive \in NoDrive))
          => /\ archives' = archives
             /\ local' = local
             /\ drive_exists' = drive_exists]_vars

\* With no storage root configured the scan, the scheduler's backup and
\* the user's restore have all three stopped at ensure_drive.
C16_AllThreeStopped ==
  /\ hist.scan.drive = "unset"
  /\ run[Auto].kind = "backup" /\ run[Auto].drive = "unset"
  /\ run[User].kind = "restore" /\ run[User].drive = "unset"
  /\ pc[User] = "idle" /\ pc[Auto] = "idle"

\* Cancel was pressed during the run of w with an entry still to come:
\* before the loop of a run that found entries, at a checkpoint with an
\* entry ahead, or during an entry that is not the last.
InProgress(w) == IF run[w].cancel_pc \in {"b_write", "r_extract"} THEN 1 ELSE 0

CancelledInTime(w) ==
  /\ run[w].cancel_at >= 0
  /\ run[w].cancel_pc \in {"b_start", "b_open", "b_check", "b_write",
                           "r_start", "r_open", "r_check", "r_extract"}
  /\ run[w].cancel_at + InProgress(w) < Len(run[w].files)

\* No entry after the one in progress was handled.
NoLaterEntry(w) == run[w].idx <= run[w].cancel_at + InProgress(w)

FolderMissing(w) ==
  \E i \in 1..Len(cfg.target_folders) :
    LET folder == Strip(cfg.target_folders[i])
    IN  folder # <<>> /\ ~PathExists(<<folder>>, run[w].snapshot)

\* The run ended in an exception, or at a cancellation checkpoint.
Raised(w) ==
  \/ run[w].ret = "False"
  \/ run[w].fin = <<FinishEv(FALSE, "error")>>

Cancelled(w) == run[w].fin = <<FinishEv(FALSE, "Cancelled")>>

\* Every entry but the failed ones went where it was to go: into the
\* archive of the backup, or out of the archive of the restore (unless
\* the guard or the filter passed it over).
OthersProcessed(w) ==
  /\ run[w].idx = Len(run[w].files)
  /\ run[w].kind = "backup" =>
       /\ \A e \in NotIgnored(run[w].snapshot, cfg.target_folders,
                              cfg.ignore_patterns) :
            \E i \in 1..Len(run[w].files) : run[w].files[i] = e.path
       /\ \A a \in ArchiveAt(DestKey(w)) :
            {m.path : m \in Range(a.members)}
              = Range(run[w].files) \ run[w].errors
  /\ run[w].kind = "restore" =>
       \A i \in 1..Len(run[w].files) :
         LET name == run[w].files[i].path
         IN  \/ name \in run[w].errors
             \/ name \in run[w].guarded
             \/ should_ignore(name, cfg.ignore_patterns)
             \/ WrittenFrom(w, name)

\* C18: a missing source folder, a file that fails to be written and a
\* member that fails to extract do not end the run: the step in which an
\* item fails goes on to the next item with no finish event, and a run
\* with such an item that found entries, and neither raised elsewhere nor
\* was cancelled, has processed every other entry and ended in success.
C18_ItemErrorsDoNotAbort ==
  /\ [](\A kind \in {"backup", "restore"} :
          (/\ Ended(User, kind)
           /\ run[User].files # <<>>
           /\ run[User].errors # {} \/ (kind = "backup" /\ FolderMissing(User))
           /\ ~Raised(User) /\ ~Cancelled(User))
            => /\ run[User].fin
                    = <<FinishEv(TRUE, IF kind = "backup"
                                         THEN "Backup Complete"
                                       ELSE "Restore Complete")>>
               /\ OthersProcessed(User))
  /\ [][\A w \in Workers :
          (/\ run[w].errors # run'[w].errors
           /\ run[w].errors \subseteq run'[w].errors)
            => /\ pc'[w] \in {"b_check", "b_close", "r_check"}
               /\ run'[w].idx = run[w].idx + 1
               /\ run'[w].fin = <<>>
               /\ run'[w].ret = "running"]_vars

\* A backup with a missing folder in its list, of two files of which the
\* write of one failed, has ended in success with the other file in its
\* archive.
C18_BackupWithSkippedItems ==
  /\ Ended(User, "backup")
  /\ FolderMissing(User)
  /\ Len(run[User].files) = 2
  /\ Cardinality(run[User].errors) = 1
  /\ run[User].fin = <<FinishEv(TRUE, "Backup Complete")>>
  /\ \E a \in ArchiveAt(DestKey(User)) : Len(a.members) = 1

\* C19: a trigger that meets a saturated guard starts no backup, puts no
\* event on the queue (the scheduler's lines on the queue and shown are
\* as many as the backups it started), and the minute is recorded as
\* fired; no backup is started by a poll that found the guard saturated.
C19_SaturatedSkipIsSilent ==
  /\ sched.shown + Len(FromScheduler(queue)) = Len(sched.starts)
  /\ \A occ \in sched.skipped : \A i \in 1..Len(sched.starts) :
       sched.starts[i] # occ
  /\ ~sched.poll.room => ~sched.poll.started
  /\ (sched.poll.occ >= 0 /\ sched.poll.matched /\ ~sched.poll.room)
       => last_run_minute = FormatHM(sched.poll.occ * TicksPerMinute)

\* The last poll met a scheduled minute for the first time with the guard
\* saturated: no backup was started for that minute, the minute is
\* recorded, and "Auto-Backup triggered" is the newest event on the queue,
\* one more line than backups were started.
C19_SkippedTriggerLogged ==
  /\ sched.poll.occ \in sched.skipped
  /\ sched.poll.matched /\ ~sched.poll.room /\ ~sched.poll.started
  /\ \A i \in 1..Len(sched.starts) : sched.starts[i] # sched.poll.occ
  /\ last_run_minute = FormatHM(sched.poll.occ * TicksPerMinute)
  /\ queue # <<>> /\ queue[Len(queue)] = Triggered
  /\ sched.shown + Len(FromScheduler(queue)) = Len(sched.starts) + 1

\* What a backup did to the storage root, and what it returned.
Effects(r) ==
  [drive |-> r.drive, scanned |-> r.scanned, stamp |-> r.stamp,
   files |-> r.files, opened |-> r.opened, idx |-> r.idx,
   errors |-> r.errors, ret |-> r.ret, listed |-> r.listed,
   deleted |-> r.deleted, kept_err |-> r.kept_err]

\* The two backups met the same failures: of os.makedirs, of the open or
\* close of the archive, of the write of a file, of os.remove.
SameFailures(r, q) ==
  /\ r.drive = q.drive
  /\ r.opened = q.opened
  /\ (r.ret = "False") = (q.ret = "False")
  /\ r.errors = q.errors
  /\ r.kept_err = q.kept_err

Writing(w) ==
  /\ run[w].kind = "backup"
  /\ pc[w] \in {"b_check", "b_write", "b_close"}

\* C21: no step alters an archive at the storage root, except that a
\* backup writes to, closes or (on cancel) removes the file it opened
\* itself and still has open, and that its retention step removes files;
\* in particular the open of a backup's destination replaces no file, and
\* a restore leaves every archive as it is.
C21_ArchivesImmutable ==
  [][\A a \in archives :
       \/ a \in archives'
       \/ \E w \in Workers :
            \/ /\ Writing(w)
               /\ KeyOf(a) = DestKey(w)
               /\ a.state = "open"
            \/ /\ run[w].kind = "backup" /\ pc[w] = "b_prune"
               /\ pc'[w] = "idle"
               /\ \A b \in archives' : KeyOf(b) # KeyOf(a)]_vars

\* The user's and the scheduler's backup took the same second for their
\* timestamp and are both inside their loops: both have opened the same
\* destination file for writing, the later open truncating the file of
\* the earlier.
C21_SameFileOpenedTwice ==
  /\ Writing(User) /\ Writing(Auto)
  /\ run[User].opened /\ run[Auto].opened
  /\ DestKey(User) = DestKey(Auto)

\* The places of the events of a run that announce the retention step
\* ("Cleaning up logic"), and of those that report success.
Prunings(w) ==
  {i \in DOMAIN run[w].emitted :
     run[w].emitted[i] = LogEv("Cleaning up logic")}

Successes(w) ==
  {i \in DOMAIN run[w].emitted :
     /\ run[w].emitted[i].type = "finish"
     /\ run[w].emitted[i].flag}

\* C22: a backup is at its retention step only with every collected file
\* handled and its archive written and closed, and with nothing finished
\* yet; a backup that returned success has run the step once, before its
\* finish(true), which is the last event of the run; a backup that ended
\* otherwise (cancelled, no files, no storage root, fatal error) has not
\* run it and removed nothing by it.
C22_PruneOnceAfterClose ==
  \A w \in Workers :
    run[w].kind = "backup" =>
      /\ pc[w] = "b_prune" =>
           /\ run[w].opened
           /\ run[w].files # <<>>
           /\ run[w].idx = Len(run[w].files)
           /\ run[w].ret = "running" /\ run[w].fin = <<>>
           /\ Prunings(w) = {}
           /\ \E a \in ArchiveAt(DestKey(w)) : a.state = "complete"
      /\ run[w].ret = "True" =>
           /\ run[w].idx = Len(run[w].files) /\ run[w].opened
           /\ HasQueue(w) =>
                /\ Cardinality(Prunings(w)) = 1
                /\ Successes(w) = {Len(run[w].emitted)}
                /\ \A i \in Prunings(w) : i < Len(run[w].emitted)
      /\ run[w].ret \in {"None", "False"} =>
           /\ Prunings(w) = {}
           /\ Successes(w) = {}
           /\ run[w].listed = {} /\ run[w].deleted = {}
      /\ run[w].ret = "running" => run[w].deleted = {}

\* A backup that returned success and whose retention step removed an
\* older archive.
C22_PrunedAndSucceeded ==
  /\ run[User].kind = "backup"
  /\ run[User].ret = "True"
  /\ run[User].deleted # {}
  /\ Prunings(User) # {}

\* The progress events of a run in the order it emitted them; a fraction
\* is kept as num / den.
ProgressOf(w) ==
  SelectSeq(run[w].emitted, LAMBDA e : e.type = "progress")

AtMost(e, f) == e.num * f.den <= f.num * e.den

Succeeded(w) ==
  /\ run[w].fin # <<>>
  /\ run[w].fin[1].flag

\* Every fraction lies in [0, 1] and the fractions never decrease; in a
\* restore the analysis values lie in [0, 0.1] and come before the
\* extraction values, which lie in [0.1, 1].
WellFormed(w) ==
  LET p == ProgressOf(w)
  IN  /\ \A i \in DOMAIN p : p[i].den > 0 /\ 0 <= p[i].num
                             /\ p[i].num <= p[i].den
      /\ \A i, j \in DOMAIN p : i < j => AtMost(p[i], p[j])
      /\ run[w].kind = "restore" =>
           \A i \in DOMAIN p :
             /\ p[i].text = "Analyzing..." =>
                  /\ 10 * p[i].num <= p[i].den
                  /\ \A j \in DOMAIN p :
                       p[j].text = "Copying files..." => i < j
             /\ p[i].text = "Copying files..." => 10 * p[i].num >= p[i].den

EndsWithOne(w) ==
  LET p == ProgressOf(w)
  IN  /\ p # <<>>
      /\ p[Len(p)].num = p[Len(p)].den

\* C23: the progress fractions of a run are well-formed, and a backup or
\* restore that completed successfully has emitted 1 as its last
\* progress fraction.
C23_ProgressEndsAtOne ==
  \A w \in Workers :
    HasQueue(w) =>
      /\ WellFormed(w)
      /\ (run[w].kind \in {"backup", "restore"} /\ Succeeded(w)) =>
           EndsWithOne(w)

\* A restore that reported success after extracting at least one member,
\* with a last progress fraction below 1: the entry it processed last was
\* skipped without a progress event.
C23_RestoreDoneBelowOne ==
  /\ run[User].kind = "restore"
  /\ Succeeded(User)
  /\ run[User].written # {}
  /\ ProgressOf(User) # <<>>
  /\ ~EndsWithOne(User)

\* The step in which a backup returns from its retention step with
\* success.
ReportsSuccess(w) ==
  /\ run[w].kind = "backup"
  /\ pc[w] = "b_prune" /\ pc'[w] = "idle"
  /\ run'[w].ret = "True"

\* C24: when a backup reports success, the archive it wrote is at the
\* storage root, whatever the retention count of the configuration and
\* whatever other archives the storage root holds.
C24_SuccessKeepsArchive ==
  [][\A w \in Workers :
       ReportsSuccess(w) =>
         \E a \in archives' : KeyOf(a) = DestKey(w) /\ a.state = "complete"]_vars

\* A backup under a retention count of at least one that reported
\* success while its retention step had removed the archive it had just
\* written: the storage root holds no file of that name.
C24_SucceededWithoutArchive ==
  /\ Ended(User, "backup")
  /\ Succeeded(User)
  /\ cfg.retention_count >= 1
  /\ DestKey(User) \in run[User].deleted
  /\ ArchiveAt(DestKey(User)) = {}

\* The step in which the user's backup, told to stop, leaves through the
\* cancel path of its loop.
CancelPath ==
  /\ run[User].kind = "backup"
  /\ pc[User] = "b_check" /\ run[User].stop
  /\ pc'[User] = "idle"

\* The file the scheduler's backup has opened and not yet closed.
OutputOfAuto(a) ==
  /\ Writing(Auto) /\ run[Auto].opened
  /\ KeyOf(a) = DestKey(Auto)

\* C25: the cancel path of the user's backup removes or alters no archive
\* but the file of its own run, and never the file a backup of the
\* scheduler is writing; pressing Cancel leaves the scheduler's backup
\* with stop_requested as it was, which is never set; and every run
\* starts with stop_requested cleared.
C25_CancelConfined ==
  [][/\ CancelPath =>
          \A a \in archives :
            a \notin archives' =>
              KeyOf(a) = DestKey(User) /\ ~OutputOfAuto(a)
     /\ run'[Auto].stop = FALSE
     /\ \A w \in Workers :
          (pc[w] = "idle" /\ pc'[w] # "idle") => ~run'[w].stop]_vars

\* The user's backup was cancelled and removed its file while the
\* scheduler's backup, started in the same second, was writing to the
\* file of that name: the scheduler's backup goes on without a file at
\* its destination.
C25_CancelRemovedAutoOutput ==
  /\ Ended(User, "backup")
  /\ run[User].fin = <<FinishEv(FALSE, "Cancelled")>>
  /\ run[User].kept_err = {}
  /\ Writing(Auto) /\ run[Auto].opened
  /\ DestKey(Auto) = DestKey(User)
  /\ ArchiveAt(DestKey(Auto)) = {}

\* The user's restore has chosen latest_backup and not yet returned.
Selected ==
  /\ run[User].kind = "restore"
  /\ pc[User] \in {"r_open", "r_check", "r_extract"}

\* C26: from the moment the restore has chosen its archive until it
\* returns, that archive is at the storage root, written and closed, and
\* is not the file a backup of the scheduler has opened and not yet
\* closed.
C26_RestoreReadsClosed ==
  Selected =>
    /\ \E a \in ArchiveAt(run[User].latest) :
         a.state \in {"complete", "partial"}
    /\ ~(/\ Writing(Auto) /\ run[Auto].opened
         /\ DestKey(Auto) = run[User].latest)

\* The restore took as latest_backup the file the scheduler's backup is
\* still writing, while a completed archive was at the storage root; it
\* goes on to open a file that has no central directory yet.
C26_SelectedOpenArchive ==
  /\ Selected /\ pc[User] = "r_open"
  /\ Writing(Auto) /\ run[Auto].opened
  /\ run[User].latest = DestKey(Auto)
  /\ \A a \in ArchiveAt(run[User].latest) : a.state = "open"
  /\ \E a \in archives : a.state = "complete"

====
